---- MODULE Spec2Model ----
(***************************************************************************)
(* The file-sharing server of server.js: a JSON document holding the list  *)
(* of file records (files.json), a directory of blobs (uploads/), and the  *)
(* handlers of /api/files, /api/upload, /api/download/:id and              *)
(* /api/files/:id (DELETE).                                                *)
(*                                                                         *)
(* One Node.js process serves every request.  A handler body that calls    *)
(* only synchronous functions (readFileSync, writeFileSync, unlinkSync)    *)
(* runs to completion before any other callback: it is one action.  What   *)
(* is asynchronous is the multipart transport in front of the upload       *)
(* handler (multer streaming the blob to disk), which is modelled as       *)
(* separate steps that other requests interleave with.                     *)
(*                                                                         *)
(* Strings are sequences of one-character strings, so that concatenation   *)
(* and number formatting are computed, not assumed injective.              *)
(***************************************************************************)
EXTENDS Integers, Sequences, FiniteSets, Bags

\* ------------------------------------------------------------------ bounds

\* Date.now() when the server starts (9, so that the clock crosses from one
\* decimal digit to two).
ClockStart == 9

\* The clock advances at most this many milliseconds.
MaxTicks == 1

\* At most this many uploads with a file part are accepted by the transport.
MaxUploads == 2

\* -------------------------------------------------------- program constants

\* limits.fileSize
FileSizeLimit == 10 * 1024 * 1024

__dirname == <<"/", "s">>

\* ------------------------------------------------------------------ strings

Digits == <<"0", "1", "2", "3", "4", "5", "6", "7", "8", "9">>

\* Number.prototype.toString(), and the number-to-string conversion of
\* Date.now() + '-': the decimal digits, most significant first.
RECURSIVE NatToStr(_)
NatToStr(n) ==
    IF n < 10 THEN <<Digits[n + 1]>>
    ELSE NatToStr(n \div 10) \o <<Digits[(n % 10) + 1]>>

\* path.join of a directory and one name without separators.
PathJoin(dir, name) == dir \o <<"/">> \o name

UploadsDir == PathJoin(__dirname, <<"u">>)

\* Date.prototype.toLocaleString('ru-RU'): the time to the second.
ToLocaleString(ms) == NatToStr(ms \div 1000)

\* ------------------------------------------------------------------- inputs

\* The file parts a client sends: originalname, mimetype, size in bytes and
\* the content (a token standing for the bytes).
SmallA ==
    [originalname |-> <<"a">>, mimetype |-> "text/plain", size |-> 1,
     content |-> "c1"]

SmallB ==
    [originalname |-> <<"b">>, mimetype |-> "image/png", size |-> 2,
     content |-> "c2"]

LargeA ==
    [originalname |-> <<"a">>, mimetype |-> "video/mp4",
     size |-> FileSizeLimit + 1, content |-> "c3"]

\* The form field `user` a client sends: whether JSON.parse accepts the text
\* and, when it does, the object's id, name and color.
Ann == [parses |-> TRUE, id |-> "u1", name |-> "Ann", color |-> "red"]

Bob == [parses |-> TRUE, id |-> "u2", name |-> "Bob", color |-> "blue"]

\* A `user` field that JSON.parse rejects (or that is missing).
BadJson == [parses |-> FALSE, id |-> "", name |-> "", color |-> ""]

\* The upload requests with a file part that clients send.
UploadRequests ==
    { [file |-> SmallA, user |-> Ann],
      [file |-> SmallB, user |-> Bob],
      [file |-> LargeA, user |-> Ann],
      [file |-> SmallB, user |-> BadJson] }

\* The userId of a delete request's body.
UserIds == {Ann.id, Bob.id}

\* The ids a client asks for: every id the clock can have produced.
RequestIds == {NatToStr(t) : t \in ClockStart .. (ClockStart + MaxTicks)}

\* Blob contents that are not a client's complete content: a file still
\* being written (or cut at the limit), and the bytes of two writers mixed.
Partial == "partial"

Mixed == "mixed"

NoResp == [op |-> "none"]

\* -------------------------------------------------------------------- state

VARIABLES
    clock,      \* Date.now()
    doc,        \* files.json: "absent", "list" (parses to db) or "malformed"
    db,         \* the list files.json holds when doc = "list"
    blobs,      \* uploads/: filename -> content
    inflight,   \* uploads inside the multipart transport
    nUploads,   \* uploads accepted so far
    resp,       \* the response this step sent (NoResp when it sent none)
    acked       \* what the clients were told: the records of the uploads
                \* answered 200, in that order, less the record of each
                \* delete answered 200, since files.json was last damaged

vars == <<clock, doc, db, blobs, inflight, nUploads, resp, acked>>

\* ------------------------------------------------------------ metadata store

\* readFiles(): the parsed document, [] when it is absent or does not parse.
ReadFiles == IF doc = "list" THEN db ELSE <<>>

\* readFiles() logged 'Error reading files database'.
ReadFailed == doc = "malformed"

\* A writeFiles that appends to the document instead of replacing it: a
\* document that did not parse still does not.
WriteFilesAppending(files, ok) ==
    IF ok /\ doc # "malformed" THEN [doc |-> "list", db |-> files]
    ELSE [doc |-> doc, db |-> db]

\* writeFiles(files): the document after the call; ok is whether
\* writeFileSync returned (TRUE) or threw (FALSE, document as it was).
WriteFiles(files, ok) ==
    IF ok THEN [doc |-> "list", db |-> files] ELSE [doc |-> doc, db |-> db]

\* Array.prototype.findIndex(f => f.id === id): 0 when there is none.
FindIndex(files, id) ==
    IF \E i \in 1 .. Len(files) : files[i].id = id
    THEN CHOOSE i \in 1 .. Len(files) :
             /\ files[i].id = id
             /\ \A j \in 1 .. (i - 1) : files[j].id # id
    ELSE 0

\* files.splice(i, 1)
Splice(files, i) ==
    [k \in 1 .. (Len(files) - 1) |-> IF k < i THEN files[k] ELSE files[k + 1]]

\* files.unshift(fileInfo) in place of push.
PushFront(files, fileInfo) == <<fileInfo>> \o files

\* files.push(fileInfo)
Push(files, fileInfo) == Append(files, fileInfo)

\* For the history variable acked: the acknowledged records less the first
\* one equal to file.
Forget(records, file) ==
    LET first == CHOOSE i \in 1 .. Len(records) :
                     /\ records[i] = file
                     /\ \A j \in 1 .. (i - 1) : records[j] # file
    IN  IF \E i \in 1 .. Len(records) : records[i] = file
        THEN [k \in 1 .. (Len(records) - 1) |->
                 IF k < first THEN records[k] ELSE records[k + 1]]
        ELSE records

\* ------------------------------------------------------------------- blobs

\* A blob is [content, written]: the file's content, and the contents that
\* uploads with the file open at the same time write into it (one content:
\* one upload, or several that send the same bytes).  POSIX semantics:
\* opening an existing file for writing cuts that same file to length 0,
\* and unlinking a file that is open leaves its writer with a file no path
\* names (the upload is then `orphaned`: what it writes is never seen under
\* the name).

\* fs.existsSync(path.join(__dirname, 'uploads', filename))
ExistsSync(filename) == filename \in DOMAIN blobs

SetBlob(bs, filename, blob) ==
    [f \in (DOMAIN bs) \cup {filename} |->
        IF f = filename THEN blob ELSE bs[f]]

\* fs.unlinkSync / fs.unlink
Unlink(bs, filename) == [f \in (DOMAIN bs) \ {filename} |-> bs[f]]

\* The uploads in flight after the file called filename is unlinked.
Orphan(infl, filename) ==
    LET orphaned(r) ==
            IF r.stage = "writing" /\ r.filename = filename
            THEN [r EXCEPT !.orphaned = TRUE] ELSE r
        after == {orphaned(r) : r \in DOMAIN infl}
    IN  [q \in after |->
            BagCardinality([r \in {x \in DOMAIN infl : orphaned(x) = q}
                               |-> infl[r]])]

\* The uploads that are writing to the file the name stands for.
Writers(filename) ==
    {r \in DOMAIN inflight :
        r.stage = "writing" /\ r.filename = filename /\ ~r.orphaned}

\* fs.createWriteStream(path) of the disk storage: a new file, or the
\* existing one cut to length 0.
OpenForWrite(bs, filename, content) ==
    SetBlob(bs, filename,
            [content |-> Partial,
             written |-> {content} \cup
                            {r.file.content : r \in Writers(filename)}])

\* The contents a file can have when upload r's stream has finished: what r
\* sent, or that mixed with the bytes another upload wrote.
Finished(b, r) ==
    IF b.written = {r.file.content} THEN {r.file.content}
    ELSE {r.file.content, Mixed}

\* storage.filename: Date.now() + '-' + file.originalname
StorageFilename(now, originalname) == NatToStr(now) \o <<"-">> \o originalname

\* A transport configured without limits.
NoLimit(size) == FALSE

\* limits.fileSize: the transport cuts a file longer than the limit.
ExceedsLimit(size) == size > FileSizeLimit

\* --------------------------------------------------------------------- Init

Init ==
    /\ clock = ClockStart
    /\ doc = "absent"
    /\ db = <<>>
    /\ blobs = <<>>
    /\ inflight = EmptyBag
    /\ nUploads = 0
    /\ resp = NoResp
    /\ acked = <<>>

\* ------------------------------------------------------------------ actions

\* Time passes.
Tick ==
    /\ clock < ClockStart + MaxTicks
    /\ clock' = clock + 1
    /\ resp' = NoResp
    /\ UNCHANGED <<doc, db, blobs, inflight, nUploads, acked>>

\* files.json is damaged from outside the server (an interrupted write, an
\* edit by hand): it no longer parses.
Corrupt ==
    /\ doc # "malformed"
    /\ doc' = "malformed"
    /\ db' = <<>>
    /\ acked' = <<>>
    /\ resp' = NoResp
    /\ UNCHANGED <<clock, blobs, inflight, nUploads>>

\* GET /api/status
Status ==
    /\ resp' = [op |-> "status", status |-> 200]
    /\ UNCHANGED <<clock, doc, db, blobs, inflight, nUploads, acked>>

\* GET /api/files answers the list readFiles() returns.
ListFilesBody == ReadFiles

ListFiles ==
    /\ resp' = [op |-> "list", status |-> 200]
    /\ UNCHANGED <<clock, doc, db, blobs, inflight, nUploads, acked>>

\* GET /api/download/:id: what the handler answers in the current state.
\* (files is what readFiles() returns and bs the uploads directory.)
DownloadHandler(files, bs, id) ==
    LET i == FindIndex(files, id)
    IN  IF i = 0 THEN [status |-> 404, error |-> "not-found"]
        ELSE IF files[i].filename \notin DOMAIN bs
        THEN [status |-> 404, error |-> "not-on-server"]
        ELSE [status |-> 200, content |-> bs[files[i].filename].content,
              downloadName |-> files[i].name]

DownloadResult(id) == DownloadHandler(ReadFiles, blobs, id)

Download(id) ==
    /\ resp' = [op |-> "download", status |-> DownloadResult(id).status]
    /\ UNCHANGED <<clock, doc, db, blobs, inflight, nUploads, acked>>

\* What the client sent in upload r, and the name its blob got.
Req(r) == [file |-> r.file, user |-> r.user, filename |-> r.filename]

\* POST /api/upload, the transport (upload.single('file')): the request has
\* a file part.  The disk storage names the blob, opens it and starts to
\* stream the part into it.
UploadStart(file, user) ==
    /\ nUploads < MaxUploads
    /\ LET filename == StorageFilename(clock, file.originalname)
       IN  /\ blobs' = OpenForWrite(blobs, filename, file.content)
           /\ inflight' = inflight (+)
                  SetToBag({[file |-> file, user |-> user,
                             filename |-> filename, orphaned |-> FALSE,
                             stage |-> "writing"]})
    /\ nUploads' = nUploads + 1
    /\ resp' = NoResp
    /\ UNCHANGED <<clock, doc, db, acked>>

\* The transport has written the whole part: req.file is complete and the
\* handler is called next.
UploadStored(r) ==
    /\ BagIn(r, inflight)
    /\ r.stage = "writing"
    /\ ~ExceedsLimit(r.file.size)
    /\ IF r.orphaned
       THEN blobs' = blobs
       ELSE \E c \in Finished(blobs[r.filename], r) :
                blobs' = SetBlob(blobs, r.filename,
                                 [blobs[r.filename] EXCEPT !.content = c])
    /\ inflight' = (inflight (-) SetToBag({r})) (+)
                       SetToBag({[r EXCEPT !.stage = "stored"]})
    /\ resp' = NoResp
    /\ UNCHANGED <<clock, doc, db, nUploads, acked>>

\* The part is longer than limits.fileSize: the transport removes the file
\* it stored and passes LIMIT_FILE_SIZE to the error middleware.
UploadTooLarge(r) ==
    /\ BagIn(r, inflight)
    /\ r.stage = "writing"
    /\ ExceedsLimit(r.file.size)
    /\ blobs' = Unlink(blobs, r.filename)
    /\ inflight' = Orphan(inflight (-) SetToBag({r}), r.filename)
    /\ resp' = [op |-> "upload", hasFile |-> TRUE, status |-> 400,
                error |-> "too-large", req |-> Req(r)]
    /\ UNCHANGED <<clock, doc, db, nUploads, acked>>

\* POST /api/upload without a file part.
UploadNoFile ==
    /\ resp' = [op |-> "upload", hasFile |-> FALSE, status |-> 400,
                error |-> "no-file"]
    /\ UNCHANGED <<clock, doc, db, blobs, inflight, nUploads, acked>>

\* The record the upload handler builds for request r at time now.
FileInfo(r, now) ==
    [id |-> NatToStr(now),
     name |-> r.file.originalname,
     size |-> r.file.size,
     type |-> r.file.mimetype,
     uploadDate |-> ToLocaleString(now),
     author |-> r.user.name,
     authorId |-> r.user.id,
     authorColor |-> r.user.color,
     filename |-> r.filename,
     path |-> PathJoin(UploadsDir, r.filename)]

\* The upload handler: JSON.parse(req.body.user) throws.
UploadBadUser(r) ==
    /\ BagIn(r, inflight)
    /\ r.stage = "stored"
    /\ ~r.user.parses
    /\ inflight' = inflight (-) SetToBag({r})
    /\ resp' = [op |-> "upload", hasFile |-> TRUE, status |-> 500,
                error |-> "upload-error", req |-> Req(r)]
    /\ UNCHANGED <<clock, doc, db, blobs, nUploads, acked>>

\* The upload handler: readFiles, push, writeFiles.
UploadHandler(r, writeOk) ==
    /\ BagIn(r, inflight)
    /\ r.stage = "stored"
    /\ r.user.parses
    /\ LET fileInfo == FileInfo(r, clock)
           files == Push(ReadFiles, fileInfo)
           written == WriteFiles(files, writeOk)
       IN  /\ doc' = written.doc
           /\ db' = written.db
           /\ resp' = IF writeOk
                      THEN [op |-> "upload", hasFile |-> TRUE,
                            status |-> 200, body |-> fileInfo,
                            req |-> Req(r), readFailed |-> ReadFailed]
                      ELSE [op |-> "upload", hasFile |-> TRUE,
                            status |-> 500, error |-> "save-error",
                            req |-> Req(r)]
    /\ acked' = IF writeOk THEN Append(acked, FileInfo(r, clock)) ELSE acked
    /\ inflight' = inflight (-) SetToBag({r})
    /\ UNCHANGED <<clock, blobs, nUploads>>

\* DELETE /api/files/:id with body {userId}: no record has the id (the
\* userId is not looked at).
DeleteNotFound(id) ==
    /\ FindIndex(ReadFiles, id) = 0
    /\ resp' = [op |-> "delete", status |-> 404, readFailed |-> ReadFailed]
    /\ UNCHANGED <<clock, doc, db, blobs, inflight, nUploads, acked>>

\* A delete handler without the author check.
AnyoneMayDelete(file, userId) == FALSE

\* file.authorId !== userId
NotAuthor(file, userId) == file.authorId # userId

\* DELETE: the record is another user's.
DeleteForbidden(id, userId) ==
    /\ FindIndex(ReadFiles, id) # 0
    /\ NotAuthor(ReadFiles[FindIndex(ReadFiles, id)], userId)
    /\ resp' = [op |-> "delete", status |-> 403, userId |-> userId,
                file |-> ReadFiles[FindIndex(ReadFiles, id)]]
    /\ UNCHANGED <<clock, doc, db, blobs, inflight, nUploads, acked>>

\* DELETE: fs.unlinkSync throws, and the handler's catch answers 500.
DeleteUnlinkFails(id, userId) ==
    /\ FindIndex(ReadFiles, id) # 0
    /\ ~NotAuthor(ReadFiles[FindIndex(ReadFiles, id)], userId)
    /\ ExistsSync(ReadFiles[FindIndex(ReadFiles, id)].filename)
    /\ resp' = [op |-> "delete", status |-> 500, userId |-> userId,
                file |-> ReadFiles[FindIndex(ReadFiles, id)],
                cause |-> "unlink"]
    /\ UNCHANGED <<clock, doc, db, blobs, inflight, nUploads, acked>>

\* files.splice(fileIndex) without the count: every record from the index
\* on is removed.
SplicedToEnd(files, i) == SubSeq(files, 1, i - 1)

\* The list the delete handler writes for the record at index i.
Spliced(files, i) == Splice(files, i)

\* A delete handler that does not unlink.
KeepBlob(bs, filename) == bs

\* The uploads directory after the delete handler's
\* if (fs.existsSync(filePath)) fs.unlinkSync(filePath).
Unlinked(bs, filename) ==
    IF filename \in DOMAIN bs THEN Unlink(bs, filename) ELSE bs

\* DELETE by the author: unlink the blob if it is there, splice the record
\* out, writeFiles.
DeleteAuthorized(id, userId, writeOk) ==
    /\ FindIndex(ReadFiles, id) # 0
    /\ LET files == ReadFiles
           i == FindIndex(files, id)
           file == files[i]
           written == WriteFiles(Spliced(files, i), writeOk)
       IN  /\ ~NotAuthor(file, userId)
           /\ blobs' = Unlinked(blobs, file.filename)
           /\ inflight' = Orphan(inflight, file.filename)
           /\ doc' = written.doc
           /\ db' = written.db
           /\ resp' = [op |-> "delete",
                       status |-> IF writeOk THEN 200 ELSE 500,
                       userId |-> userId,
                       cause |-> IF writeOk THEN "none" ELSE "write",
                       file |-> file, hadBlob |-> ExistsSync(file.filename)]
    /\ acked' = IF writeOk
                THEN Forget(acked, ReadFiles[FindIndex(ReadFiles, id)])
                ELSE acked
    /\ UNCHANGED <<clock, nUploads>>

\* --------------------------------------------------------------------- Next

Next ==
    \/ Tick
    \/ Corrupt
    \/ Status
    \/ ListFiles
    \/ \E id \in RequestIds : Download(id)
    \/ \E q \in UploadRequests : UploadStart(q.file, q.user)
    \/ \E r \in DOMAIN inflight : UploadStored(r)
    \/ \E r \in DOMAIN inflight : UploadTooLarge(r)
    \/ UploadNoFile
    \/ \E r \in DOMAIN inflight : UploadBadUser(r)
    \/ \E r \in DOMAIN inflight, writeOk \in BOOLEAN : UploadHandler(r, writeOk)
    \/ \E id \in RequestIds : DeleteNotFound(id)
    \/ \E id \in RequestIds, userId \in UserIds : DeleteForbidden(id, userId)
    \/ \E id \in RequestIds, userId \in UserIds : DeleteUnlinkFails(id, userId)
    \/ \E id \in RequestIds, userId \in UserIds, writeOk \in BOOLEAN :
           DeleteAuthorized(id, userId, writeOk)

Spec == Init /\ [][Next]_vars

\* The event loop runs every pending callback: an upload in the transport
\* is stored or refused, and a stored one reaches the handler.  Nothing
\* obliges a client to send a request.
Pending ==
    \E r \in DOMAIN inflight :
        \/ UploadStored(r)
        \/ UploadTooLarge(r)
        \/ UploadBadUser(r)
        \/ \E writeOk \in BOOLEAN : UploadHandler(r, writeOk)

FairSpec == Spec /\ WF_vars(Pending)

\* ------------------------------------------------------------------- claims

UploadOk(r) == r.op = "upload" /\ r.hasFile /\ r.status = 200

DeleteOk(r) == r.op = "delete" /\ r.status = 200

\* Whether a record of the list has the id.
Listed(id) == \E i \in 1 .. Len(ListFilesBody) : ListFilesBody[i].id = id

\* C1: after an upload answered 200, GET /api/files returns the list it
\* returned before plus exactly one record at the end, whose name, size and
\* type are the uploaded file's and whose authorId is the user object's id.
C1_UploadAppendsOneRecord ==
    [][UploadOk(resp') =>
        LET new == ListFilesBody'[Len(ListFilesBody')]
        IN  /\ ListFilesBody' = Append(ListFilesBody, new)
            /\ new = resp'.body
            /\ new.name = resp'.req.file.originalname
            /\ new.size = resp'.req.file.size
            /\ new.type = resp'.req.file.mimetype
            /\ new.authorId = resp'.req.user.id]_vars

\* An upload answered 200 that was appended to a list that held a record.
C1_Witness == UploadOk(resp) /\ Len(ListFilesBody) >= 2

\* C2: once a delete by the author is answered 200 for an id, no record
\* with that id is listed and a download of the id answers 404, and this
\* stays so as long as no upload is handled.
C2_DeletedStaysGone ==
    [][\A id \in RequestIds :
        (\/ DeleteOk(resp') /\ resp'.file.id = id
         \/ ~Listed(id) /\ DownloadResult(id).status = 404
               /\ resp'.op # "upload")
        => (~Listed(id))' /\ DownloadResult(id)'.status = 404]_vars

\* C3: a delete whose id matches a record of another author answers 403
\* and leaves the document and the uploads directory as they were.
C3_ForbiddenDeleteChangesNothing ==
    [][(resp'.op = "delete" /\ resp'.status # 404
          /\ resp'.file.authorId # resp'.userId)
        => /\ resp'.status = 403
           /\ resp'.file = ReadFiles[FindIndex(ReadFiles, resp'.file.id)]
           /\ UNCHANGED <<doc, db, blobs>>]_vars

\* A delete answered 403 for a record whose blob is on disk.
C3_Witness ==
    /\ resp.op = "delete"
    /\ resp.status = 403
    /\ ExistsSync(resp.file.filename)
    /\ Listed(resp.file.id)

\* C4: a download of the id of a record just returned by an upload answers
\* 200 with the content that upload sent.
C4_DownloadAfterUpload ==
    [][UploadOk(resp') =>
        LET got == DownloadHandler(ReadFiles', blobs', resp'.body.id)
        IN  /\ got.status = 200
            /\ got.content = resp'.req.file.content]_vars

TenMiB == 10 * 1024 * 1024

\* C5: an upload whose file is longer than 10 MiB is answered 400 by the
\* error middleware, never reaches the handler, and when it is answered the
\* document is unchanged and no blob has the request's filename.
C5_TooLargeIsRefused ==
    [][/\ \A r \in DOMAIN inflight' :
             r.file.size > TenMiB => r.stage = "writing"
       /\ (resp'.op = "upload" /\ resp'.hasFile
             /\ resp'.req.file.size > TenMiB)
          => /\ resp'.status = 400
             /\ resp'.error = "too-large"
             /\ UNCHANGED <<doc, db>>
             /\ resp'.req.filename \notin DOMAIN blobs']_vars

\* An upload refused as too large while the list holds a record.
C5_Witness ==
    /\ resp.op = "upload"
    /\ resp.hasFile
    /\ resp.status = 400
    /\ resp.error = "too-large"
    /\ Len(ReadFiles) >= 1

\* C6: the ids of the records of the list are pairwise distinct.
C6_IdsDistinct ==
    \A i, j \in 1 .. Len(ReadFiles) :
        i # j => ReadFiles[i].id # ReadFiles[j].id

C8_EveryRecordHasItsBlob ==
    \A i \in 1 .. Len(ReadFiles) : ExistsSync(ReadFiles[i].filename)

C10_MalformedDocumentReadsEmpty ==
    [][doc = "malformed" =>
        /\ ReadFiles = <<>>
        /\ UploadOk(resp') =>
              /\ resp'.readFailed
              /\ doc' = "list"
              /\ db' = <<resp'.body>>
              /\ blobs' = blobs
        /\ resp'.op = "delete" =>
              /\ resp'.status = 404
              /\ UNCHANGED <<doc, db, blobs>>]_vars

\* An upload answered 200 over a document that did not parse, while the
\* blob of an earlier upload is on disk.
C10_Witness ==
    /\ UploadOk(resp)
    /\ resp.readFailed
    /\ Cardinality(DOMAIN blobs) >= 2
    /\ Len(ReadFiles) = 1

====
